---- MODULE Spec2Model ----
(***************************************************************************)
(* ts-pretty: the in-memory compiler host (CustCompilerHost), its ordered  *)
(* text-patch application (applyTextChanges), the format-settings          *)
(* resolution of TypeScriptParser (makeFormatCodeSettings), its printing   *)
(* with the quote preference (tsPrintSourceFile), its parse and the parser *)
(* the plugin registers around it.                                         *)
(*                                                                         *)
(* JavaScript values are modelled as follows.  A string is a sequence of   *)
(* one-character strings.  The value undefined is the one-element sequence *)
(* Undefined, whose element is no character, so it differs from every      *)
(* string.  A Map is a function whose DOMAIN is the set of keys it holds.  *)
(***************************************************************************)
EXTENDS Integers, Sequences, FiniteSets, TLC

\* ------------------------------------------------------------- bounds
\* Longest text the host may come to hold (applyTextChanges grows a text).
MaxTextLen == 1
\* Writes (writeFile, also through applyTextChanges) per path.
MaxWrites == 2
\* Edits per batch handed to applyTextChanges on the host.
MaxHostEdits == 1
\* The patch specification: longest source string, edits per batch.
MaxSrcLen == 2
MaxEdits == 2

\* ------------------------------------------------------------- values
\* The characters of the texts the host holds, and of the strings and
\* replacements of the patch specification.
Chars == {"a"}

PatchChars == {"a", "b"}

\* Two paths: one the backing filesystem may hold, and one it never holds,
\* as the path parse() makes up from randomUUID() for a text without a path.
Paths == {"a.ts", "uuid.ts"}

FreshPath == "uuid.ts"

Undefined == <<"undefined">>

RECURSIVE Strings(_, _)
Strings(C, n) ==
    IF n = 0 THEN {<<>>}
    ELSE LET S == Strings(C, n - 1)
         IN  S \cup {Append(s, c) : s \in {x \in S : Len(x) = n - 1}, c \in C}

\* The texts handed to writeFile and those the backing filesystem holds: the
\* empty string and a non-empty one.
Texts == {<<>>, <<"a">>}

LanguageVersions == {"ESNext"}

EmptyMap == [k \in {} |-> {}]

MapSet(m, k, v) == [x \in (DOMAIN m) \cup {k} |-> IF x = k THEN v ELSE m[x]]

Min(a, b) == IF a < b THEN a ELSE b

\* ------------------------------------------------------------- state
VARIABLES
    files,          \* CustCompilerHost.files: Map<string, string>
    fileVersions,   \* CustCompilerHost.fileVersions: Map<string, number>
    sourceFiles,    \* CustCompilerHost.sourceFiles: Map<string, ts.SourceFile>
    disk,           \* the backing filesystem as ts.sys.readFile sees it
    backingRead,    \* per path, whether ts.sys.readFile was called for it
    writes,         \* per path, the calls of writeFile so far
    lastWritten,    \* per written path, the text of the latest writeFile
    changes,        \* the batch handed to applyTextChanges (patch specification)
    formatOverrides, \* TypeScriptParser.formatOverrides
    overrideFiles,  \* per override-file path, the file as fs.readFileSync sees it
    parses,         \* the calls of json5Parse that returned, on this instance
    first,          \* the first resolution that named a file and returned
    baseline,       \* what the object DefaultFormatCodeSettings names holds
    getLiteralText, \* the process-wide hook (ts as any).getLiteralText
    pc,             \* where the running tsPrintSourceFile is
    frame,          \* its locals
    nodes,          \* the nodes of the source file it prints
    ret             \* the last call: its name, arguments and returned value

hostVars == <<files, fileVersions, sourceFiles, disk, backingRead, writes,
              lastWritten, changes>>

parserVars == <<formatOverrides, overrideFiles, parses, first, baseline>>

printVars == <<getLiteralText, pc, frame, nodes>>

vars == <<hostVars, parserVars, printVars, ret>>

Host == [files |-> files, fileVersions |-> fileVersions, sourceFiles |-> sourceFiles]

\* ------------------------------------------------------------- CustCompilerHost
\* ts.sys.readFile: the content, or undefined when the file does not exist.
SysReadFile(fileName) == disk[fileName]

\* ts.sys.fileExists
SysFileExists(fileName) == disk[fileName] # Undefined

\* JavaScript truthiness of a string | undefined: `if (content)`.
Truthy(content) == content # Undefined /\ content # <<>>

\* ts.createSourceFile(fileName, text, languageVersion)
createSourceFile(fileName, text, languageVersion) ==
    [fileName |-> fileName, text |-> text, languageVersion |-> languageVersion]

fileExists(h, fileName) ==
    IF fileName \in DOMAIN h.files THEN TRUE ELSE SysFileExists(fileName)

\* A readFile that asks the backing filesystem first.
readFileDiskFirst(h, fileName) ==
    LET content == SysReadFile(fileName)
    IN  IF content # Undefined
        THEN [host |-> h, result |-> content, backing |-> 1]
        ELSE [host |-> h,
              result |-> IF fileName \in DOMAIN h.files THEN h.files[fileName]
                         ELSE Undefined,
              backing |-> 1]

\* readFile: the host after the call, the returned value and the number of
\* backing reads the call made.
readFile(h, fileName) ==
    IF fileName \in DOMAIN h.files
    THEN [host |-> h, result |-> h.files[fileName], backing |-> 0]
    ELSE LET content == SysReadFile(fileName)
         IN  [host |-> IF Truthy(content)
                       THEN [h EXCEPT !.files = MapSet(@, fileName, content)]
                       ELSE h,
              result |-> content,
              backing |-> 1]

\* getSourceFile: the returned source file is a set, empty for undefined.
getSourceFile(h, fileName, languageVersion) ==
    IF fileName \in DOMAIN h.sourceFiles
    THEN [host |-> h, result |-> {h.sourceFiles[fileName]}, backing |-> 0]
    ELSE LET r == readFile(h, fileName)
         IN  IF r.result # Undefined
             THEN LET result == createSourceFile(fileName, r.result, languageVersion)
                  IN  [host |-> [r.host EXCEPT
                                   !.sourceFiles = MapSet(@, fileName, result)],
                       result |-> {result},
                       backing |-> r.backing]
             ELSE [host |-> r.host, result |-> {}, backing |-> r.backing]

\* A version counter that starts at 1 with the first write.
newVersFromZero(fv, fileName) ==
    (IF fileName \in DOMAIN fv THEN fv[fileName] ELSE 0) + 1

\* (this.fileVersions.get(fileName) ?? 1) + 1
newVers(fv, fileName) ==
    (IF fileName \in DOMAIN fv THEN fv[fileName] ELSE 1) + 1

\* The cached parse of fileName after writeFile(fileName, text).
reparse(sf, fileName, text) ==
    IF fileName \in DOMAIN sf
    THEN MapSet(sf, fileName,
                createSourceFile(fileName, text, sf[fileName].languageVersion))
    ELSE sf

\* A writeFile that leaves the version alone when the text is the stored one.
writeFileSkipSame(h, fileName, text) ==
    [files |-> MapSet(h.files, fileName, text),
     sourceFiles |-> reparse(h.sourceFiles, fileName, text),
     fileVersions |-> IF fileName \in DOMAIN h.files /\ h.files[fileName] = text
                      THEN h.fileVersions
                      ELSE MapSet(h.fileVersions, fileName,
                                  newVers(h.fileVersions, fileName))]

\* A writeFile that keeps the cached parse of the old text.
writeFileStaleParse(h, fileName, text) ==
    [files |-> MapSet(h.files, fileName, text),
     sourceFiles |-> h.sourceFiles,
     fileVersions |-> MapSet(h.fileVersions, fileName,
                             newVers(h.fileVersions, fileName))]

\* A writeFile that raises the version of every path the store holds.
writeFileBumpEvery(h, fileName, text) ==
    [files |-> MapSet(h.files, fileName, text),
     sourceFiles |-> reparse(h.sourceFiles, fileName, text),
     fileVersions |-> [p \in DOMAIN h.files \cup DOMAIN h.fileVersions \cup {fileName}
                          |-> newVers(h.fileVersions, p)]]

writeFile(h, fileName, text) ==
    [files |-> MapSet(h.files, fileName, text),
     sourceFiles |-> reparse(h.sourceFiles, fileName, text),
     fileVersions |-> MapSet(h.fileVersions, fileName,
                             newVers(h.fileVersions, fileName))]

\* ts.ScriptSnapshot.fromString(text)
fromString(text) == [getText |-> text]

\* A snapshot only of a text that is truthy.
getScriptSnapshotIfTruthy(h, fileName) ==
    LET r == readFile(h, fileName)
    IN  [host |-> r.host, backing |-> r.backing,
         result |-> IF Truthy(r.result) THEN {fromString(r.result)} ELSE {}]

\* CustLangServiceHost.getScriptSnapshot; result is empty for undefined.
getScriptSnapshot(h, fileName) ==
    LET r == readFile(h, fileName)
    IN  [host |-> r.host, backing |-> r.backing,
         result |-> IF r.result # Undefined THEN {fromString(r.result)} ELSE {}]

\* String(v) of a number v.
String(v) == ToString(v)

\* A version that counts the read-through caching of a path as a change.
getScriptVersionOfCached(h, fileName) ==
    IF fileName \in DOMAIN h.fileVersions
    THEN String(h.fileVersions[fileName])
    ELSE IF fileName \in DOMAIN h.files THEN "2" ELSE "1"

getScriptVersion(h, fileName) ==
    IF fileName \in DOMAIN h.fileVersions
    THEN String(h.fileVersions[fileName])
    ELSE "1"

\* ------------------------------------------------------------- applyTextChanges
\* String.prototype.slice(from, to) for 0 <= from, to: both ends are clamped
\* to the length and an empty range yields "".
Slice(s, from, to) == SubSeq(s, Min(from, Len(s)) + 1, Min(to, Len(s)))

SliceFrom(s, from) == Slice(s, from, Len(s))

TextChange(start, length, newText) ==
    [span |-> [start |-> start, length |-> length], newText |-> newText]

\* Array.prototype.sort((a, b) => b.span.start - a.span.start) is stable: an
\* insertion sort that moves an element only past elements of smaller start.
RECURSIVE InsertDesc(_, _)
InsertDesc(sorted, e) ==
    IF sorted = <<>> THEN <<e>>
    ELSE IF sorted[Len(sorted)].span.start >= e.span.start
         THEN Append(sorted, e)
         ELSE Append(InsertDesc(SubSeq(sorted, 1, Len(sorted) - 1), e),
                     sorted[Len(sorted)])

RECURSIVE SortDesc(_)
SortDesc(textChanges) ==
    IF textChanges = <<>> THEN <<>>
    ELSE InsertDesc(SortDesc(SubSeq(textChanges, 1, Len(textChanges) - 1)),
                    textChanges[Len(textChanges)])

\* One step of the forEach body.
ApplyOne(newText, textChange) ==
    Slice(newText, 0, textChange.span.start)
        \o textChange.newText
        \o SliceFrom(newText, textChange.span.start + textChange.span.length)

RECURSIVE ApplyAll(_, _)
ApplyAll(newText, sorted) ==
    IF sorted = <<>> THEN newText
    ELSE ApplyAll(ApplyOne(newText, Head(sorted)), Tail(sorted))

\* The text the forEach leaves in newText.
PatchedText(text, textChanges) == ApplyAll(text, SortDesc(textChanges))

\* An applyTextChanges that returns early on an empty batch.
applyTextChangesSkipEmpty(h, fileName, textChanges) ==
    LET r == readFile(h, fileName)
    IN  IF r.result = Undefined /\ textChanges # <<>>
        THEN [host |-> r.host, result |-> Undefined, backing |-> r.backing,
              thrown |-> TRUE, text |-> r.result]
        ELSE LET newText == IF textChanges = <<>> THEN r.result
                            ELSE PatchedText(r.result, textChanges)
             IN  [host |-> IF textChanges = <<>> THEN r.host
                           ELSE writeFile(r.host, fileName, newText),
                  result |-> newText, backing |-> r.backing,
                  thrown |-> FALSE, text |-> r.result]

\* applyTextChanges: readFile(fileName)! is undefined for a file neither the
\* store nor the backing filesystem holds; the first forEach step then throws
\* a TypeError (undefined.slice) before anything is written, and an empty
\* batch writes undefined.
applyTextChanges(h, fileName, textChanges) ==
    LET r == readFile(h, fileName)
    IN  IF r.result = Undefined /\ textChanges # <<>>
        THEN [host |-> r.host, result |-> Undefined, backing |-> r.backing,
              thrown |-> TRUE, text |-> r.result]
        ELSE LET newText == IF textChanges = <<>> THEN r.result
                            ELSE PatchedText(r.result, textChanges)
             IN  [host |-> writeFile(r.host, fileName, newText),
                  result |-> newText, backing |-> r.backing,
                  thrown |-> FALSE, text |-> r.result]

\* ------------------------------------------------------------- inputs
\* Every edit whose range lies within a string of length n, with a
\* replacement from T.
Edits(n, T) ==
    {e \in {TextChange(start, length, newText) :
                start \in 0..n, length \in 0..n, newText \in T} :
        e.span.start + e.span.length <= n}

InBounds(text, textChange) ==
    textChange.span.start + textChange.span.length <= Len(text)

Batches(E, n) == UNION {[1..m -> E] : m \in 0..n}

\* The edits of the host specification: an insertion at the start, the
\* removal of the first character.
HostEdits == {TextChange(0, 0, <<"a">>), TextChange(0, 1, <<>>)}

HostBatches == Batches(HostEdits, MaxHostEdits)

\* ------------------------------------------------------------- settings: values
\* JavaScript values carry their type, and what they hold under a field named
\* after it; an absent property reads as Undef.
Num(n) == [type |-> "number", number |-> n]

Bool(b) == [type |-> "boolean", boolean |-> b]

Str(s) == [type |-> "string", string |-> s]

Undef == [type |-> "undefined"]

Null == [type |-> "null"]

Obj(f) == [type |-> "object", object |-> f]

typeof(v) == IF v.type = "null" THEN "object" ELSE v.type

\* if (v), !v
ToBoolean(v) ==
    CASE v.type = "undefined" -> FALSE
      [] v.type = "null" -> FALSE
      [] v.type = "boolean" -> v.boolean
      [] v.type = "number" -> v.number # 0
      [] v.type = "string" -> v.string # ""
      [] OTHER -> TRUE

\* obj.key
Get(obj, key) == IF key \in DOMAIN obj THEN obj[key] ELSE Undef

\* delete obj.key
Delete(obj, key) == [k \in DOMAIN obj \ {key} |-> obj[k]]

EOL == "\n"

Smart == "Smart"

Insert == "insert"

Remove == "remove"

DefaultFormatCodeSettings ==
    [ baseIndentSize |-> Num(0),
      newLineCharacter |-> Str(EOL),
      convertTabsToSpaces |-> Bool(FALSE),
      tabSize |-> Num(1),
      indentSize |-> Num(1),
      indentStyle |-> Str(Smart),
      trimTrailingWhitespace |-> Bool(TRUE),
      insertSpaceAfterCommaDelimiter |-> Bool(TRUE),
      insertSpaceAfterSemicolonInForStatements |-> Bool(TRUE),
      insertSpaceBeforeAndAfterBinaryOperators |-> Bool(TRUE),
      insertSpaceAfterConstructor |-> Bool(TRUE),
      insertSpaceAfterKeywordsInControlFlowStatements |-> Bool(TRUE),
      insertSpaceAfterFunctionKeywordForAnonymousFunctions |-> Bool(TRUE),
      insertSpaceAfterOpeningAndBeforeClosingNonemptyParenthesis |-> Bool(FALSE),
      insertSpaceAfterOpeningAndBeforeClosingNonemptyBrackets |-> Bool(FALSE),
      insertSpaceAfterOpeningAndBeforeClosingNonemptyBraces |-> Bool(TRUE),
      insertSpaceAfterOpeningAndBeforeClosingEmptyBraces |-> Bool(FALSE),
      insertSpaceAfterOpeningAndBeforeClosingTemplateStringBraces |-> Bool(FALSE),
      insertSpaceAfterOpeningAndBeforeClosingJsxExpressionBraces |-> Bool(FALSE),
      insertSpaceAfterTypeAssertion |-> Bool(TRUE),
      insertSpaceBeforeFunctionParenthesis |-> Bool(FALSE),
      placeOpenBraceOnNewLineForFunctions |-> Bool(FALSE),
      placeOpenBraceOnNewLineForControlBlocks |-> Bool(FALSE),
      insertSpaceBeforeTypeAnnotation |-> Bool(FALSE),
      indentMultiLineObjectLiteralBeginningOnBlankLine |-> Bool(TRUE),
      semicolons |-> Str(Insert) ]

\* ------------------------------------------------------------- settings: resolution
\* The switch without its delete: the baseline's newLineCharacter stays.
withEndOfLineKeepDefault(format, options) ==
    LET endOfLine == Get(options, "endOfLine")
    IN  CASE endOfLine = Str("crlf") -> MapSet(format, "newLineCharacter", Str("\r\n"))
          [] endOfLine = Str("lf") -> MapSet(format, "newLineCharacter", Str("\n"))
          [] endOfLine = Str("cr") -> MapSet(format, "newLineCharacter", Str("\r"))
          [] OTHER -> format

\* switch (options.endOfLine)
withEndOfLine(format, options) ==
    LET endOfLine == Get(options, "endOfLine")
    IN  CASE endOfLine = Str("crlf") -> MapSet(format, "newLineCharacter", Str("\r\n"))
          [] endOfLine = Str("lf") -> MapSet(format, "newLineCharacter", Str("\n"))
          [] endOfLine = Str("cr") -> MapSet(format, "newLineCharacter", Str("\r"))
          [] OTHER -> Delete(format, "newLineCharacter")

\* The guard left out: an absent semi counts as a false one.
withSemiUnguarded(format, options) ==
    LET semi == Get(options, "semi")
    IN  MapSet(format, "semicolons",
               IF ~ToBoolean(semi) THEN Str(Remove) ELSE Str(Insert))

withSemi(format, options) ==
    LET semi == Get(options, "semi")
    IN  IF typeof(semi) = "boolean"
        THEN MapSet(format, "semicolons",
                    IF ~semi.boolean THEN Str(Remove) ELSE Str(Insert))
        ELSE format

withTabWidth(format, options) ==
    LET tabWidth == Get(options, "tabWidth")
    IN  IF typeof(tabWidth) = "number"
        THEN MapSet(MapSet(format, "tabSize", tabWidth), "indentSize", tabWidth)
        ELSE format

\* The else branch left out: without useTabs the baseline's flag stays.
withUseTabsKeepDefault(format, options) ==
    LET useTabs == Get(options, "useTabs")
        flagged == MapSet(format, "convertTabsToSpaces", Bool(~useTabs.boolean))
    IN  IF typeof(useTabs) = "boolean"
        THEN IF ToBoolean(flagged["convertTabsToSpaces"])
                /\ typeof(Get(options, "tabWidth")) = "number"
             THEN MapSet(MapSet(flagged, "tabSize", Num(1)), "indentSize", Num(1))
             ELSE flagged
        ELSE format

withUseTabs(format, options) ==
    LET useTabs == Get(options, "useTabs")
        flagged == MapSet(format, "convertTabsToSpaces", Bool(~useTabs.boolean))
    IN  IF typeof(useTabs) = "boolean"
        THEN IF ToBoolean(flagged["convertTabsToSpaces"])
                /\ typeof(Get(options, "tabWidth")) = "number"
             THEN MapSet(MapSet(flagged, "tabSize", Num(1)), "indentSize", Num(1))
             ELSE flagged
        ELSE Delete(format, "convertTabsToSpaces")

withBracketSpacing(format, options) ==
    LET bracketSpacing == Get(options, "bracketSpacing")
    IN  IF typeof(bracketSpacing) = "boolean"
        THEN MapSet(format,
                    "insertSpaceAfterOpeningAndBeforeClosingNonemptyBrackets",
                    bracketSpacing)
        ELSE format

\* A reference to an object: the object it names and what that object holds.
\* const format = DefaultFormatCodeSettings, without the copy.
sameObject(value) == [names |-> "DefaultFormatCodeSettings", holds |-> value]

\* cloneDeep(value) of lodash: a new object that holds what value holds.
cloneDeep(value) == [names |-> "format", holds |-> value]

\* The settings before the override file is looked at.
fromPreferences(options) ==
    withBracketSpacing(
        withUseTabs(
            withTabWidth(
                withSemi(
                    withEndOfLine(cloneDeep(baseline).holds, options),
                    options),
                options),
            options),
        options)

\* ------------------------------------------------------------- settings: override file
MaxParses == 2

FormatPaths == {"ts-format.json", "other-format.json"}

\* A file of the filesystem fs reads: absent, or present with its text.
NoFile == [exists |-> FALSE, text |-> ""]

File(text) == [exists |-> TRUE, text |-> text]

NullText == "null"

TabSizeText == "{tabSize: 8, newLineCharacter: '\\r\\n'}"

IndentSizeText == "{indentSize: 3, /* wide */}"

NestedText == "{newLineCharacter: '\\r', brackets: {nonempty: true}}"

MalformedText == "{tabSize: "

OverrideTexts ==
    {NullText, TabSizeText, IndentSizeText, NestedText, MalformedText}

OverrideFiles == {NoFile} \cup {File(text) : text \in OverrideTexts}

\* fs.readFileSync(path, 'utf8'); names holds the paths a thrown error
\* identifies.
readFileSync(fs, path) ==
    IF path \in DOMAIN fs /\ fs[path].exists
    THEN [thrown |-> "none", txt |-> fs[path].text, names |-> {}]
    ELSE [thrown |-> "ENOENT", txt |-> "", names |-> {path}]

\* The error of json5Parse: it is given the text alone, and says where in
\* the text it stopped.
SyntaxError == [thrown |-> "SyntaxError", value |-> Undef, names |-> {}]

json5Parse(txt) ==
    CASE txt = NullText -> [thrown |-> "none", value |-> Null, names |-> {}]
      [] txt = TabSizeText ->
            [thrown |-> "none",
             value |-> Obj([tabSize |-> Num(8), newLineCharacter |-> Str("\r\n")]),
             names |-> {}]
      [] txt = IndentSizeText ->
            [thrown |-> "none", value |-> Obj([indentSize |-> Num(3)]),
             names |-> {}]
      [] txt = NestedText ->
            [thrown |-> "none",
             value |-> Obj([newLineCharacter |-> Str("\r"),
                            brackets |-> Obj([nonempty |-> Bool(TRUE)])]),
             names |-> {}]
      [] OTHER -> SyntaxError

RECURSIVE baseMerge(_, _)
baseMerge(object, source) ==
    [k \in DOMAIN object \cup DOMAIN source |->
        IF k \notin DOMAIN source THEN object[k]
        ELSE IF /\ k \in DOMAIN object
                /\ object[k].type = "object"
                /\ source[k].type = "object"
             THEN Obj(baseMerge(object[k].object, source[k].object))
             ELSE source[k]]

\* defaults(object, source) of lodash in the place of merge: a key the
\* object has keeps its value.
mergeMissingOnly(object, source) ==
    IF source.type = "object"
    THEN [k \in DOMAIN object \cup DOMAIN source.object |->
             IF k \in DOMAIN object THEN object[k] ELSE source.object[k]]
    ELSE object

\* merge(object, source) of lodash: a source that is not an object adds nothing.
merge(object, source) ==
    IF source.type = "object" THEN baseMerge(object, source.object) ELSE object

\* this.formatOverrides after the if of lines 154-157, with what the load did.
loadOverrides(cached, fs, path) ==
    LET read == readFileSync(fs, path)
        parsed == json5Parse(read.txt)
    IN  IF ToBoolean(cached)
        THEN [formatOverrides |-> cached, thrown |-> "none", names |-> {},
              reads |-> 0, parsed |-> 0]
        ELSE IF read.thrown # "none"
        THEN [formatOverrides |-> cached, thrown |-> read.thrown,
              names |-> read.names, reads |-> 1, parsed |-> 0]
        ELSE IF parsed.thrown # "none"
        THEN [formatOverrides |-> cached, thrown |-> parsed.thrown,
              names |-> parsed.names, reads |-> 1, parsed |-> 0]
        ELSE [formatOverrides |-> parsed.value, thrown |-> "none", names |-> {},
              reads |-> 1, parsed |-> 1]

\* result holds the returned settings, and nothing when the call throws.
makeFormatCodeSettings(cached, fs, options) ==
    LET format == fromPreferences(options)
        tspTsFormat == Get(options, "tspTsFormat")
        load == loadOverrides(cached, fs, tspTsFormat.string)
    IN  IF ~ToBoolean(tspTsFormat)
        THEN [formatOverrides |-> cached, thrown |-> "none", names |-> {},
              reads |-> 0, parsed |-> 0, result |-> {format}]
        ELSE [formatOverrides |-> load.formatOverrides, thrown |-> load.thrown,
              names |-> load.names, reads |-> load.reads, parsed |-> load.parsed,
              result |-> IF load.thrown = "none"
                         THEN {merge(format, load.formatOverrides)}
                         ELSE {}]

\* What the object format names holds when makeFormatCodeSettings is left:
\* the settings returned, or what the preferences made of it when the load
\* of the override file threw.
formatLeft(cached, fs, options) ==
    LET r == makeFormatCodeSettings(cached, fs, options)
    IN  IF r.result # {} THEN CHOOSE format \in r.result : TRUE
        ELSE fromPreferences(options)

\* What the object DefaultFormatCodeSettings names holds when
\* makeFormatCodeSettings is left: every statement of it writes to format.
baselineLeft(cached, fs, options) ==
    IF cloneDeep(baseline).names = "DefaultFormatCodeSettings"
    THEN formatLeft(cached, fs, options)
    ELSE baseline

\* ------------------------------------------------------------- printing: quote preference
MaxQuoteLen == 2

MaxNodes == 2

\* A string value whose characters matter.
Text(s) == [type |-> "string", chars |-> s]

UpperCase == <<"A", "E", "F", "L", "N", "O", "S", "U", "Y">>

LowerCase == <<"a", "e", "f", "l", "n", "o", "s", "u", "y">>

toLowerChar(c) ==
    IF \E i \in DOMAIN UpperCase : UpperCase[i] = c
    THEN LowerCase[CHOOSE i \in DOMAIN UpperCase : UpperCase[i] = c]
    ELSE c

\* String.prototype.toLowerCase
toLowerCase(s) == [i \in DOMAIN s |-> toLowerChar(s[i])]

\* if (v), for a value whose strings are character sequences
IsTruthy(v) == IF v.type = "string" THEN v.chars # <<>> ELSE ToBoolean(v)

\* The lowering left out: only the lower-case spellings are recognised.
resolveCaseSensitive(preference) ==
    IF typeof(preference) = "boolean" THEN preference
    ELSE IF \/ preference.type = "null"
            \/ (preference.type = "string" /\ preference.chars = <<"0">>)
            \/ (preference.type = "number" /\ preference.number = 0)
    THEN Bool(FALSE)
    ELSE IF typeof(preference) = "string"
    THEN IF preference.chars \in {<<"f", "a", "l", "s", "e">>, <<"n", "u", "l", "l">>, <<"n", "o">>}
         THEN Bool(FALSE)
         ELSE IF IsTruthy(preference) THEN Bool(TRUE) ELSE Undef
    ELSE IF IsTruthy(preference) THEN Bool(TRUE) ELSE Undef

\* The local singleQuote of tsPrintSourceFile after lines 179-195.
resolveSingleQuote(preference) ==
    IF typeof(preference) = "boolean" THEN preference
    ELSE IF \/ preference.type = "null"
            \/ (preference.type = "string" /\ preference.chars = <<"0">>)
            \/ (preference.type = "number" /\ preference.number = 0)
    THEN Bool(FALSE)
    ELSE IF typeof(preference) = "string"
    THEN LET s == toLowerCase(preference.chars)
         IN  IF s \in {<<"f", "a", "l", "s", "e">>, <<"n", "u", "l", "l">>, <<"n", "o">>}
             THEN Bool(FALSE)
             ELSE IF IsTruthy(preference) THEN Bool(TRUE) ELSE Undef
    ELSE IF IsTruthy(preference) THEN Bool(TRUE) ELSE Undef

\* The nodes of a source file in the order forEachChild reaches them.
Node(kind, singleQuote) == [kind |-> kind, singleQuote |-> singleQuote]

\* visitNode over the whole tree
visitNode(tree, singleQuote) ==
    [i \in DOMAIN tree |->
        IF tree[i].kind = "StringLiteral"
        THEN Node(tree[i].kind, singleQuote)
        ELSE tree[i]]

\* The nodes after line 208.
tagged(tree, singleQuote) ==
    IF typeof(singleQuote) = "boolean" THEN visitNode(tree, singleQuote) ELSE tree

\* The functions ts.getLiteralText can hold: the one of the library, one an
\* earlier patch left there, and the wrapper of tsPrintSourceFile around
\* the function it found.
Builtin == [fn |-> "ts.getLiteralText", wraps |-> "none"]

Patched == [fn |-> "patched", wraps |-> "ts.getLiteralText"]

getLiteralTextWrapperOf(found) == [fn |-> "getLiteralText", wraps |-> found.fn]

\* ------------------------------------------------------------- parsing
\* A comment line of a text is one element of it.
IgnoreComment == "// organize-imports-ignore"

TslintComment == "// tslint:disable:ordered-imports"

\* String.prototype.includes, for a comment line
includes(text, comment) == \E i \in DOMAIN text : text[i] = comment

\* The paths drawn are real paths of a case-sensitive filesystem.
getCanonicalFileName(fileName) == fileName

\* filePath of parse
filePathOf(options) ==
    LET filepath == Get(options, "filepath")
    IN  IF ToBoolean(filepath)
        THEN IF SysFileExists(filepath.string)
             THEN getCanonicalFileName(filepath.string)
             ELSE filepath.string
        ELSE FreshPath

\* A store nobody made anew: the one the invocation before left.
ReusedHost == Host

\* new CustCompilerHost(tsCompilerOptions)
NewHost == [files |-> EmptyMap, fileVersions |-> EmptyMap, sourceFiles |-> EmptyMap]

\* One invocation of parse while it runs: its store, the calls it has made on
\* the store, the printer and the language service in their order, what the
\* last call returned, and what was thrown.
NewRun == [host |-> NewHost, log |-> <<>>, result |-> Undefined, thrown |-> "none"]

\* A call as the log keeps it: the text it writes and the edits it applies,
\* if any, and the version the store reports for every path when it is made.
Call(run, op, fileName, text, edits) ==
    [op |-> op, fileName |-> fileName, text |-> text, edits |-> edits,
     versions |-> [p \in Paths |-> getScriptVersion(run.host, p)]]

\* host.writeFile(fileName, text); a statement after a throw is not reached.
runWriteFile(run, fileName, text) ==
    IF run.thrown # "none" THEN run
    ELSE [run EXCEPT !.host = writeFile(run.host, fileName, text),
                     !.log = Append(@, Call(run, "writeFile", fileName, text, <<>>))]

\* host.getSourceFile(filePath, tsCompilerOptions.target ?? ts.ScriptTarget.Latest)
runGetSourceFile(run, fileName) ==
    IF run.thrown # "none" THEN run
    ELSE [run EXCEPT !.host = getSourceFile(run.host, fileName, "ESNext").host,
                     !.log = Append(@, Call(run, "getSourceFile", fileName,
                                            Undefined, <<>>))]

\* this.tsPrintSourceFile(sourceFile, options): the printed text, or what
\* printNode raised.
runPrint(run, fileName, engine) ==
    IF run.thrown # "none" THEN run
    ELSE [run EXCEPT !.result = engine.printed,
                     !.thrown = engine.raised,
                     !.log = Append(@, Call(run, "tsPrintSourceFile", fileName,
                                            Undefined, <<>>))]

\* languageService.organizeImports / getFormattingEditsForDocument: the
\* language service computes edits for what the store holds now.
runAsk(run, op, fileName) ==
    IF run.thrown # "none" THEN run
    ELSE [run EXCEPT !.log = Append(@, Call(run, op, fileName, Undefined, <<>>))]

\* host.applyTextChanges(fileName, textChanges)
runApplyTextChanges(run, fileName, textChanges) ==
    LET r == applyTextChanges(run.host, fileName, textChanges)
    IN  IF run.thrown # "none" THEN run
        ELSE [host |-> r.host,
              log |-> Append(run.log, Call(run, "applyTextChanges", fileName,
                                           r.result, textChanges)),
              result |-> r.result,
              thrown |-> IF r.thrown THEN "TypeError" ELSE "none"]

\* fileChanges.forEach(v => host.applyTextChanges(v.fileName, v.textChanges))
RECURSIVE applyFileChanges(_, _)
applyFileChanges(run, fileChanges) ==
    IF fileChanges = <<>> THEN run
    ELSE applyFileChanges(
             runApplyTextChanges(run, Head(fileChanges).fileName,
                                 Head(fileChanges).textChanges),
             Tail(fileChanges))

\* The test of the second comment left out.
organizesUnlessIgnored(cleanedText, options) ==
    /\ ToBoolean(Get(options, "tspOrganizeImports"))
    /\ ~includes(cleanedText, IgnoreComment)

\* Does parse ask the engine to organise the imports of cleanedText?
organizes(cleanedText, options) ==
    /\ ToBoolean(Get(options, "tspOrganizeImports"))
    /\ ~includes(cleanedText, IgnoreComment)
    /\ ~includes(cleanedText, TslintComment)

\* The imports organised for the staged text, before the printed text is
\* written.
stagedOrganizedEarly(text, options, engine) ==
    LET filePath == filePathOf(options)
        written == runWriteFile(NewRun, filePath, text)
        parsed == runGetSourceFile(written, filePath)
        printed == runPrint(parsed, filePath, engine)
        asked == runAsk(printed, "organizeImports", filePath)
    IN  IF printed.thrown = "none" /\ organizes(engine.printed, options)
        THEN applyFileChanges(runWriteFile(asked, filePath, engine.printed),
                              engine.organized)
        ELSE runWriteFile(printed, filePath, engine.printed)

\* TypeScriptParser.parse up to the formatting edits: the run after the
\* printed text was written and the imports were organised.  engine holds
\* what the printer and the language service answer.
staged(text, options, engine) ==
    LET filePath == filePathOf(options)
        written == runWriteFile(NewRun, filePath, text)
        parsed == runGetSourceFile(written, filePath)
        printed == runPrint(parsed, filePath, engine)
        cleaned == runWriteFile(printed, filePath, engine.printed)
    IN  IF cleaned.thrown = "none" /\ organizes(engine.printed, options)
        THEN applyFileChanges(runAsk(cleaned, "organizeImports", filePath),
                              engine.organized)
        ELSE cleaned

\* TypeScriptParser.parse: node holds the returned node, and nothing when
\* the call throws; host is the store the call worked on, empty when it
\* threw before making one.
parse(cached, fs, text, options, engine) ==
    LET settings == makeFormatCodeSettings(cached, fs, options)
        filePath == filePathOf(options)
        asked == runAsk(staged(text, options, engine),
                        "getFormattingEditsForDocument", filePath)
        formatted == runApplyTextChanges(asked, filePath, engine.formatting)
    IN  IF settings.thrown # "none"
        THEN [formatOverrides |-> settings.formatOverrides,
              thrown |-> settings.thrown, host |-> NewRun.host, log |-> <<>>,
              node |-> {}]
        ELSE [formatOverrides |-> settings.formatOverrides,
              thrown |-> formatted.thrown, host |-> formatted.host,
              log |-> formatted.log,
              node |-> IF formatted.thrown # "none" THEN {}
                       ELSE {[type |-> "tsc-ast", source |-> text, start |-> 0,
                              end |-> Len(text), body |-> formatted.result]}]

\* ------------------------------------------------------------- actions
NoCall == [op |-> "none"]

HostInit ==
    /\ files = EmptyMap
    /\ fileVersions = EmptyMap
    /\ sourceFiles = EmptyMap
    /\ backingRead = [p \in Paths |-> FALSE]
    /\ writes = [p \in Paths |-> 0]
    /\ lastWritten = EmptyMap
    /\ ret = NoCall

\* The parser as constructed: no overrides loaded.
ParserInit ==
    /\ formatOverrides = Undef
    /\ parses = 0
    /\ first = NoCall
    /\ baseline = DefaultFormatCodeSettings

NoOverrideFiles == overrideFiles = [p \in FormatPaths |-> NoFile]

NoFrame == [op |-> "none"]

\* Nothing is being printed and the hook is the library's.
PrintIdle ==
    /\ getLiteralText = Builtin
    /\ pc = "idle"
    /\ frame = NoFrame
    /\ nodes = <<>>

SetHost(h) ==
    /\ files' = h.files
    /\ fileVersions' = h.fileVersions
    /\ sourceFiles' = h.sourceFiles

CountReads(fileName, n) ==
    backingRead' = [backingRead EXCEPT ![fileName] = @ \/ n > 0]

CountWrite(fileName, text) ==
    /\ writes[fileName] < MaxWrites
    /\ writes' = [writes EXCEPT ![fileName] = @ + 1]
    /\ lastWritten' = MapSet(lastWritten, fileName, text)

ReadFile(fileName) ==
    LET r == readFile(Host, fileName)
    IN  /\ SetHost(r.host)
        /\ CountReads(fileName, r.backing)
        /\ ret' = [op |-> "readFile", fileName |-> fileName,
                   result |-> r.result, backing |-> r.backing,
                   readBefore |-> backingRead[fileName]]
        /\ UNCHANGED <<disk, writes, lastWritten, changes, parserVars, printVars>>

GetScriptSnapshot(fileName) ==
    LET r == getScriptSnapshot(Host, fileName)
    IN  /\ SetHost(r.host)
        /\ CountReads(fileName, r.backing)
        /\ ret' = [op |-> "getScriptSnapshot", fileName |-> fileName,
                   result |-> r.result, backing |-> r.backing]
        /\ UNCHANGED <<disk, writes, lastWritten, changes, parserVars, printVars>>

GetSourceFile(fileName, languageVersion) ==
    LET r == getSourceFile(Host, fileName, languageVersion)
    IN  /\ SetHost(r.host)
        /\ CountReads(fileName, r.backing)
        /\ ret' = [op |-> "getSourceFile", fileName |-> fileName,
                   result |-> r.result, backing |-> r.backing]
        /\ UNCHANGED <<disk, writes, lastWritten, changes, parserVars, printVars>>

WriteFile(fileName, text) ==
    /\ SetHost(writeFile(Host, fileName, text))
    /\ CountWrite(fileName, text)
    /\ ret' = [op |-> "writeFile", fileName |-> fileName, text |-> text,
               versionBefore |-> getScriptVersion(Host, fileName),
               sameText |-> fileName \in DOMAIN files /\ files[fileName] = text]
    /\ UNCHANGED <<disk, backingRead, changes, parserVars, printVars>>

GetScriptVersion(fileName) ==
    /\ ret' = [op |-> "getScriptVersion", fileName |-> fileName,
               result |-> getScriptVersion(Host, fileName)]
    /\ UNCHANGED <<hostVars, parserVars, printVars>>

ApplyTextChanges(fileName, textChanges) ==
    LET r == applyTextChanges(Host, fileName, textChanges)
    IN  /\ SetHost(r.host)
        /\ CountReads(fileName, r.backing)
        /\ IF r.thrown
           THEN UNCHANGED <<writes, lastWritten>>
           ELSE CountWrite(fileName, r.result)
        /\ ret' = [op |-> "applyTextChanges", fileName |-> fileName,
                   result |-> r.result, thrown |-> r.thrown,
                   text |-> r.text, size |-> Len(textChanges),
                   backing |-> r.backing,
                   versionBefore |-> getScriptVersion(Host, fileName),
                   writesBefore |-> writes[fileName]]
        /\ UNCHANGED <<disk, changes, parserVars, printVars>>

Init ==
    /\ HostInit
    /\ ParserInit
    /\ NoOverrideFiles
    /\ disk \in [Paths -> Texts \cup {Undefined}]
    /\ disk[FreshPath] = Undefined
    /\ changes = <<>>
    /\ PrintIdle

Next ==
    \/ \E fileName \in Paths : ReadFile(fileName)
    \/ \E fileName \in Paths, lv \in LanguageVersions : GetSourceFile(fileName, lv)
    \/ \E fileName \in Paths, text \in Texts : WriteFile(fileName, text)
    \/ \E fileName \in Paths : GetScriptVersion(fileName)
    \/ \E fileName \in Paths : GetScriptSnapshot(fileName)
    \/ \E fileName \in Paths, textChanges \in HostBatches :
          /\ LET result == applyTextChanges(Host, fileName, textChanges).result
             IN  result = Undefined \/ Len(result) <= MaxTextLen
          /\ ApplyTextChanges(fileName, textChanges)

Spec == Init /\ [][Next]_vars

\* ------------------------------------------------------------- patch specification
\* applyTextChanges as a function of its inputs: the backing filesystem holds
\* a string for PatchPath, and one batch, drawn with the string, is applied
\* to it once.
PatchPath == "a.ts"

\* A replacement is empty (a removal) or a character no source string has.
NewTexts == {<<>>, <<"x">>}

PatchEdits == Edits(MaxSrcLen, NewTexts)

PatchInit ==
    /\ HostInit
    /\ ParserInit
    /\ NoOverrideFiles
    /\ \E text \in Strings(PatchChars, MaxSrcLen) :
          disk = [p \in Paths |-> IF p = PatchPath THEN text ELSE Undefined]
    /\ changes \in Batches(PatchEdits, MaxEdits)
    /\ PrintIdle

PatchNext ==
    /\ ret = NoCall
    /\ ApplyTextChanges(PatchPath, changes)

SpecPatch == PatchInit /\ [][PatchNext]_vars

\* ------------------------------------------------------------- settings specification
\* A host nothing has touched, over a filesystem without sources.
HostIdle ==
    /\ HostInit
    /\ disk = [p \in Paths |-> Undefined]
    /\ changes = <<>>

TabWidths == {2, 4}

\* The values prettier knows, and one it does not.
EndOfLines == {"crlf", "lf", "cr", "auto", "LF"}

Options(endOfLines, booleans, tabWidths, useTabs, tspTsFormats) ==
    [endOfLine : endOfLines, semi : booleans, tabWidth : tabWidths,
     useTabs : useTabs, bracketSpacing : booleans, tspTsFormat : tspTsFormats]

Booleans == {Undef, Bool(TRUE), Bool(FALSE)}

\* Every combination of the caller preferences, no override file named.
PreferenceOptions ==
    Options({Undef} \cup {Str(e) : e \in EndOfLines},
            Booleans,
            {Undef} \cup {Num(w) : w \in TabWidths},
            Booleans,
            {Undef})

Resolve(options) ==
    LET r == makeFormatCodeSettings(formatOverrides, overrideFiles, options)
    IN  /\ parses + r.parsed <= MaxParses
        /\ formatOverrides' = r.formatOverrides
        /\ parses' = parses + r.parsed
        /\ baseline' = baselineLeft(formatOverrides, overrideFiles, options)
        /\ ret' = [op |-> "makeFormatCodeSettings", options |-> options,
                   result |-> r.result, thrown |-> r.thrown, names |-> r.names,
                   reads |-> r.reads, parsesBefore |-> parses]
        /\ UNCHANGED <<hostVars, overrideFiles, printVars>>

MakeFormatCodeSettings(options) ==
    /\ Resolve(options)
    /\ UNCHANGED first

SettingsInit ==
    /\ HostIdle
    /\ ParserInit
    /\ NoOverrideFiles
    /\ PrintIdle

SettingsNext == \E options \in PreferenceOptions : MakeFormatCodeSettings(options)

SpecSettings == SettingsInit /\ [][SettingsNext]_vars

\* ------------------------------------------------------------- override specification
\* A few caller preferences, with one of the override files named or none.
OverrideOptions ==
    Options({Undef, Str("lf")},
            {Undef},
            {Undef, Num(4)},
            {Undef, Bool(TRUE)},
            {Undef} \cup {Str(p) : p \in FormatPaths})

\* Someone rewrites, creates or removes an override file.
ChangeOverrideFile(path, file) ==
    /\ overrideFiles[path] # file
    /\ overrideFiles' = [overrideFiles EXCEPT ![path] = file]
    /\ ret' = [op |-> "changeOverrideFile", fileName |-> path]
    /\ UNCHANGED <<hostVars, formatOverrides, parses, first, baseline, printVars>>

OverridesInit ==
    /\ HostIdle
    /\ ParserInit
    /\ overrideFiles \in [FormatPaths -> OverrideFiles]
    /\ PrintIdle

OverridesNext ==
    \/ \E options \in OverrideOptions : MakeFormatCodeSettings(options)
    \/ \E path \in FormatPaths, file \in OverrideFiles : ChangeOverrideFile(path, file)

SpecOverrides == OverridesInit /\ [][OverridesNext]_vars

\* ------------------------------------------------------------- print specification
\* The quote preferences: the values of other types, every string over
\* QuoteChars up to MaxQuoteLen, and some longer spellings.
QuoteChars == {"n", "o", "N", "O"}

QuoteWords ==
    { <<"0">>, <<"f", "a", "l", "s", "e">>, <<"F", "a", "l", "s", "e">>,
      <<"F", "A", "L", "S", "E">>, <<"n", "u", "l", "l">>, <<"N", "U", "L", "L">>,
      <<"y", "e", "s">> }

QuotePreferences ==
    {Undef, Null, Bool(TRUE), Bool(FALSE), Num(0), Num(1)}
        \cup {Text(s) : s \in Strings(QuoteChars, MaxQuoteLen) \cup QuoteWords}

NodeKinds == {"StringLiteral", "Identifier"}

\* A string literal the parser made carries a flag or none.
Nodes ==
    {Node("Identifier", Undef)}
        \cup {Node("StringLiteral", q) : q \in {Undef, Bool(TRUE), Bool(FALSE)}}

SourceFiles == UNION {[1..n -> Nodes] : n \in 0..MaxNodes}

PrintErrors == {"printNode failed"}

\* tsPrintSourceFile up to the try: the preference is resolved, the string
\* literals are tagged, the hook found is kept and the wrapper put in its place.
InstallWrapper(options) ==
    /\ pc = "idle"
    /\ LET singleQuote == resolveSingleQuote(Get(options, "singleQuote"))
       IN  /\ nodes' = tagged(nodes, singleQuote)
           /\ frame' = [op |-> "tsPrintSourceFile", options |-> options,
                        singleQuote |-> singleQuote,
                        getLiteralTextWrapper |-> getLiteralText,
                        sourceFile |-> nodes,
                        thrown |-> "none"]
    /\ getLiteralText' = getLiteralTextWrapperOf(getLiteralText)
    /\ pc' = "printNode"
    /\ ret' = NoCall
    /\ UNCHANGED <<hostVars, parserVars>>

\* printer.printNode returns, or raises error.
PrintNode(error) ==
    /\ pc = "printNode"
    /\ frame' = [frame EXCEPT !.thrown = error]
    /\ pc' = "finally"
    /\ UNCHANGED <<hostVars, parserVars, getLiteralText, nodes, ret>>

\* Without the try: the assignment is reached only when printNode returned.
RestoreOnReturnOnly ==
    /\ pc = "finally"
    /\ getLiteralText' =
          IF frame.thrown = "none" THEN frame.getLiteralTextWrapper ELSE getLiteralText
    /\ pc' = "idle"
    /\ frame' = NoFrame
    /\ ret' = [op |-> "tsPrintSourceFile", options |-> frame.options,
               singleQuote |-> frame.singleQuote,
               raised |-> frame.thrown, thrown |-> frame.thrown,
               found |-> frame.getLiteralTextWrapper,
               sourceFile |-> frame.sourceFile]
    /\ UNCHANGED <<hostVars, parserVars, nodes>>

\* The finally block, and the return or the rethrow after it.
RestoreHook ==
    /\ pc = "finally"
    /\ getLiteralText' = frame.getLiteralTextWrapper
    /\ pc' = "idle"
    /\ frame' = NoFrame
    /\ ret' = [op |-> "tsPrintSourceFile", options |-> frame.options,
               singleQuote |-> frame.singleQuote,
               raised |-> frame.thrown, thrown |-> frame.thrown,
               found |-> frame.getLiteralTextWrapper,
               sourceFile |-> frame.sourceFile]
    /\ UNCHANGED <<hostVars, parserVars, nodes>>

PrintInit ==
    /\ HostIdle
    /\ ParserInit
    /\ NoOverrideFiles
    /\ getLiteralText \in {Builtin, Patched}
    /\ pc = "idle"
    /\ frame = NoFrame
    /\ nodes \in SourceFiles

PrintNext ==
    \/ \E preference \in QuotePreferences :
          InstallWrapper([singleQuote |-> preference])
    \/ \E error \in {"none"} \cup PrintErrors : PrintNode(error)
    \/ RestoreHook

SpecPrint == PrintInit /\ [][PrintNext]_vars

\* ------------------------------------------------------------- repeat specification
\* Resolutions that all name an override file, with the first of them that
\* returned kept for comparison.
RepeatOptions ==
    Options({Undef}, {Undef}, {Undef, Num(4)}, {Undef},
            {Str(p) : p \in FormatPaths})

RepeatFiles == {NoFile, File(NullText), File(TabSizeText)}

MakeFormatCodeSettingsNoted(options) ==
    /\ Resolve(options)
    /\ first' = IF first = NoCall /\ ret'.result # {}
                THEN [op |-> "makeFormatCodeSettings", options |-> options,
                      file |-> overrideFiles[options.tspTsFormat.string],
                      result |-> ret'.result]
                ELSE first

RepeatInit ==
    /\ HostIdle
    /\ ParserInit
    /\ overrideFiles \in [FormatPaths -> RepeatFiles]
    /\ PrintIdle

RepeatNext ==
    \/ \E options \in RepeatOptions : MakeFormatCodeSettingsNoted(options)
    \/ \E path \in FormatPaths, file \in RepeatFiles : ChangeOverrideFile(path, file)

SpecRepeat == RepeatInit /\ [][RepeatNext]_vars

\* ------------------------------------------------------------- wrapper specification
\* The parser the plugin registers under each parser name, called with texts
\* and options, the printer and the language service answering as they may.
WrapperOptions ==
    [tspDisable : {Undef, Bool(TRUE)},
     tspUseBuiltins : {Undef, Bool(TRUE)},
     tspOrganizeImports : {Undef, Bool(TRUE)},
     filepath : {Undef, Str(PatchPath)}]

\* What the printer can return for the text: a text, or a text with a
\* comment that switches the organising of imports off.
PrintedTexts == Texts \cup {<<IgnoreComment>>, <<TslintComment>>}

\* The batches the language service answers with: none, or one insertion
\* at the start.
EngineBatches == {<<>>, <<TextChange(0, 0, <<"a">>)>>}

FileChanges(fileName) ==
    {<<>>} \cup {<<[fileName |-> fileName, textChanges |-> b]>> :
                    b \in EngineBatches \ {<<>>}}

Engines(options) ==
    [builtin : IF ToBoolean(options.tspUseBuiltins) THEN Texts ELSE {<<>>},
     raised : {"none"},
     printed : IF ToBoolean(options.tspDisable) THEN {<<>>} ELSE PrintedTexts,
     organized : IF ToBoolean(options.tspDisable) \/ ~ToBoolean(options.tspOrganizeImports)
                 THEN {<<>>}
                 ELSE FileChanges(filePathOf(options)),
     formatting : IF ToBoolean(options.tspDisable) THEN {<<>>} ELSE EngineBatches]

\* What the language service answers fits what it was asked about: it is
\* asked to organise only when parse asks, it returns one entry for a file,
\* only for a file it can read, and edits that lie within the text of the
\* file.
Fits(text, options, engine) ==
    LET filePath == filePathOf(options)
        before == staged(text, options, engine)
    IN  /\ engine.organized # <<>> =>
              engine.raised = "none" /\ organizes(engine.printed, options)
        /\ \A i, j \in DOMAIN engine.organized :
              i # j => engine.organized[i].fileName # engine.organized[j].fileName
        /\ \A i \in DOMAIN engine.organized :
              LET held == IF engine.organized[i].fileName = filePath
                          THEN engine.printed
                          ELSE SysReadFile(engine.organized[i].fileName)
              IN  /\ held # Undefined
                  /\ \A j \in DOMAIN engine.organized[i].textChanges :
                        InBounds(held, engine.organized[i].textChanges[j])
        /\ before.thrown = "none" =>
              \A j \in DOMAIN engine.formatting :
                 InBounds(before.host.files[filePath], engine.formatting[j])

MaxCalls == 1

\* The calls of the wrapper parser so far.
Calls == IF ret = NoCall THEN 0 ELSE ret.calls

\* A wrapper that hands every text on to TypeScriptParser.parse.
WrapperParseAlways(text, options, engine) ==
    LET origTxt == text
        input == IF ToBoolean(options.tspUseBuiltins) THEN engine.builtin ELSE origTxt
        r == parse(formatOverrides, overrideFiles, input, options, engine)
    IN  /\ Calls < MaxCalls
        /\ Fits(input, options, engine)
        /\ SetHost(r.host)
        /\ formatOverrides' = r.formatOverrides
        /\ baseline' = baselineLeft(formatOverrides, overrideFiles, options)
        /\ ret' = [op |-> "parse", calls |-> Calls + 1,
                   text |-> origTxt, options |-> options,
                   engine |-> engine, thrown |-> r.thrown,
                   invoked |-> (IF ToBoolean(options.tspUseBuiltins)
                                THEN {"builtin"} ELSE {})
                               \cup {"TypeScriptParser.parse", "CustCompilerHost",
                                     "languageService"},
                   node |-> r.node]
        /\ UNCHANGED <<disk, backingRead, writes, lastWritten, changes,
                       overrideFiles, parses, first, printVars>>

\* parsers[parserName].parse(text, options)
WrapperParse(text, options, engine) ==
    LET origTxt == text
        input == IF ToBoolean(options.tspUseBuiltins) THEN engine.builtin ELSE origTxt
        r == parse(formatOverrides, overrideFiles, input, options, engine)
    IN  /\ Calls < MaxCalls
        /\ IF ToBoolean(options.tspDisable)
           THEN /\ ret' = [op |-> "parse", calls |-> Calls + 1,
                           text |-> origTxt, options |-> options,
                           engine |-> engine, thrown |-> "none",
                           invoked |-> IF ToBoolean(options.tspUseBuiltins)
                                       THEN {"builtin"} ELSE {},
                           node |-> {[type |-> "tsc-ast", source |-> origTxt,
                                      start |-> 0, end |-> Len(origTxt),
                                      body |-> input]}]
                /\ UNCHANGED <<hostVars, parserVars, printVars>>
           ELSE /\ Fits(input, options, engine)
                /\ SetHost(r.host)
                /\ formatOverrides' = r.formatOverrides
                /\ baseline' = baselineLeft(formatOverrides, overrideFiles, options)
                /\ ret' = [op |-> "parse", calls |-> Calls + 1,
                           text |-> origTxt, options |-> options,
                           engine |-> engine, thrown |-> r.thrown,
                           invoked |-> (IF ToBoolean(options.tspUseBuiltins)
                                        THEN {"builtin"} ELSE {})
                                       \cup {"TypeScriptParser.parse", "CustCompilerHost",
                                             "languageService"},
                           node |-> r.node]
                /\ UNCHANGED <<disk, backingRead, writes, lastWritten, changes,
                               overrideFiles, parses, first, printVars>>

WrapperInit ==
    /\ HostInit
    /\ ParserInit
    /\ NoOverrideFiles
    /\ PrintIdle
    /\ disk \in [Paths -> Texts \cup {Undefined}]
    /\ disk[FreshPath] = Undefined
    /\ changes = <<>>

WrapperNext ==
    \E text \in Texts, options \in WrapperOptions :
        \E engine \in Engines(options) : WrapperParse(text, options, engine)

SpecWrapper == WrapperInit /\ [][WrapperNext]_vars

\* ------------------------------------------------------------- parse specification
\* TypeScriptParser.parse called on the one parserInstance, with texts and
\* options, the printer and the language service answering as they may.
ParseOptions ==
    [filepath : {Undef, Str(PatchPath)},
     tspOrganizeImports : {Undef, Bool(TRUE)}]

\* organizeImports answers with no entry, with one for the file, or with one
\* for the file and one for another file.
SeveralFileChanges(fileName) ==
    FileChanges(fileName)
        \cup {<<[fileName |-> fileName, textChanges |-> b],
                [fileName |-> other, textChanges |-> b]>> :
                  b \in EngineBatches \ {<<>>}, other \in Paths \ {fileName}}

\* The printer returns a text and the language service its edits, or
\* printNode raises.
ParseEngines(options) ==
    [raised : {"none"},
     printed : PrintedTexts,
     organized : IF ToBoolean(Get(options, "tspOrganizeImports"))
                 THEN SeveralFileChanges(filePathOf(options))
                 ELSE {<<>>},
     formatting : EngineBatches]
        \cup [raised : PrintErrors, printed : {<<>>}, organized : {<<>>},
               formatting : {<<>>}]

\* parserInstance.parse(text, options)
Parse(text, options, engine) ==
    LET settings == makeFormatCodeSettings(formatOverrides, overrideFiles, options)
        r == parse(formatOverrides, overrideFiles, text, options, engine)
    IN  /\ Fits(text, options, engine)
        /\ SetHost(r.host)
        /\ formatOverrides' = r.formatOverrides
        /\ parses' = parses + settings.parsed
        /\ baseline' = baselineLeft(formatOverrides, overrideFiles, options)
        /\ ret' = [op |-> "TypeScriptParser.parse", calls |-> Calls + 1,
                   text |-> text, options |-> options, engine |-> engine,
                   filePath |-> filePathOf(options),
                   thrown |-> r.thrown, reads |-> settings.reads,
                   log |-> r.log, node |-> r.node,
                   before |-> [host |-> Host,
                               thrown |-> IF ret = NoCall THEN "none"
                                          ELSE ret.thrown]]
        /\ UNCHANGED <<disk, backingRead, writes, lastWritten, changes,
                       overrideFiles, first, printVars>>

ParseNext ==
    /\ Calls < MaxCalls
    /\ \E text \in Texts, options \in ParseOptions :
          \E engine \in ParseEngines(options) : Parse(text, options, engine)

SpecParse == WrapperInit /\ [][ParseNext]_vars

\* ------------------------------------------------------------- batch specification
\* A run of prettier over several files: one invocation of parse after the
\* other on the one parserInstance, some with an override file named.
MaxInvocations == 2

BatchOptions ==
    [filepath : {Undef, Str(PatchPath)},
     tspTsFormat : {Undef, Str("ts-format.json")}]

BatchEngines ==
    [raised : {"none"}, printed : Texts, organized : {<<>>},
     formatting : EngineBatches]
        \cup [raised : PrintErrors, printed : {<<>>}, organized : {<<>>},
               formatting : {<<>>}]

BatchInit ==
    /\ HostInit
    /\ ParserInit
    /\ PrintIdle
    /\ \E file \in {NoFile, File(TabSizeText)} :
          overrideFiles = [p \in FormatPaths |->
                              IF p = "ts-format.json" THEN file ELSE NoFile]
    /\ disk \in [Paths -> {<<"a">>, Undefined}]
    /\ disk[FreshPath] = Undefined
    /\ changes = <<>>

BatchNext ==
    /\ Calls < MaxInvocations
    /\ \E text \in Texts, options \in BatchOptions, engine \in BatchEngines :
          Parse(text, options, engine)

SpecBatch == BatchInit /\ [][BatchNext]_vars

\* ------------------------------------------------------------- claims: the host
\* after is the decimal string of the number one above before's.
StrictlyNext(before, after) ==
    \E n \in 1..(MaxWrites + 2) : before = String(n) /\ after = String(n + 1)

\* C1: each writeFile(p, t) raises the version getScriptVersion(p) reports by
\* exactly 1, also when t is the text the store already holds for p.
C1_VersionUpByOnePerWrite ==
    ret.op = "writeFile" =>
        StrictlyNext(ret.versionBefore, getScriptVersion(Host, ret.fileName))

\* A second write of the text already stored has just happened.
C1_Witness ==
    /\ ret.op = "writeFile"
    /\ ret.sameText
    /\ writes[ret.fileName] = 2

\* C2, as stated: after the first writeFile to a path getScriptVersion
\* reports "1", after the second "2".
C2_FirstWriteGivesOne ==
    \A p \in Paths :
        /\ writes[p] = 1 => getScriptVersion(Host, p) = "1"
        /\ writes[p] = 2 => getScriptVersion(Host, p) = "2"

\* C2, amended: the counter starts from the "1" an unwritten path reports, so
\* after the first writeFile to a path getScriptVersion reports "2" and after
\* the second "3".
C2_FirstWriteGivesTwo ==
    \A p \in Paths :
        /\ writes[p] = 1 => getScriptVersion(Host, p) = "2"
        /\ writes[p] = 2 => getScriptVersion(Host, p) = "3"

\* The second of two writeFile calls with the same text, to a path nothing
\* else touched.
C2_Witness ==
    /\ ret.op = "writeFile"
    /\ ret.sameText
    /\ ret.versionBefore = "2"
    /\ ~backingRead[ret.fileName]

\* C5: a path the backing filesystem holds and nobody wrote is read from the
\* backing filesystem at most once: a readFile after an earlier backing read
\* makes no backing read.
C5_ReadThroughOnce ==
    ( /\ ret.op = "readFile"
      /\ disk[ret.fileName] # Undefined
      /\ ret.fileName \notin DOMAIN lastWritten
      /\ ret.readBefore )
    => ret.backing = 0

\* C6: once a path is written, readFile returns the text of its latest
\* writeFile, whatever the backing filesystem holds, and no call reads the
\* backing filesystem for it.
C6_WrittenPathShadowsBacking ==
    /\ \A p \in DOMAIN lastWritten :
          /\ readFile(Host, p).result = lastWritten[p]
          /\ readFile(Host, p).backing = 0
    /\ (ret.op = "readFile" /\ ret.fileName \in DOMAIN lastWritten)
          => ret.result = lastWritten[ret.fileName] /\ ret.backing = 0
    /\ (ret.op = "getSourceFile" /\ ret.fileName \in DOMAIN lastWritten)
          => ret.backing = 0
    /\ (ret.op = "applyTextChanges" /\ ret.writesBefore > 0)
          => ret.backing = 0

\* readFile has returned the empty string written over a non-empty backing
\* file.
C6_Witness ==
    /\ ret.op = "readFile"
    /\ ret.fileName \in DOMAIN lastWritten
    /\ lastWritten[ret.fileName] = <<>>
    /\ ret.result = <<>>
    /\ Truthy(disk[ret.fileName])

\* C7: an applyTextChanges that returns has written the returned string to
\* the store by one writeFile: the store holds it, the version is one higher
\* than before, and an empty batch returns the content unchanged.
C7_PatchWrittenBackOnce ==
    (ret.op = "applyTextChanges" /\ ~ret.thrown) =>
        /\ ret.fileName \in DOMAIN files
        /\ files[ret.fileName] = ret.result
        /\ StrictlyNext(ret.versionBefore, getScriptVersion(Host, ret.fileName))
        /\ writes[ret.fileName] = ret.writesBefore + 1
        /\ ret.size = 0 => ret.result = ret.text

\* An empty batch has been applied to a path that holds a text.
C7_Witness ==
    /\ ret.op = "applyTextChanges"
    /\ ~ret.thrown
    /\ ret.size = 0
    /\ ret.result # Undefined
    /\ ret.writesBefore = 1

\* C8: the cached parse of a path has the path's current content: every
\* cached source file, and every source file getSourceFile returns, has the
\* text readFile returns for the path.
C8_ParseMatchesContent ==
    /\ \A p \in DOMAIN sourceFiles :
          sourceFiles[p].text = readFile(Host, p).result
    /\ \A p \in Paths, lv \in LanguageVersions :
          \A sf \in getSourceFile(Host, p, lv).result :
              sf.text = readFile(getSourceFile(Host, p, lv).host, p).result
    /\ ret.op = "getSourceFile" =>
          \A sf \in ret.result : sf.text = readFile(Host, ret.fileName).result

\* A path whose parse is cached has been written with a text other than the
\* one parsed.
C8_Witness ==
    /\ ret.op = "writeFile"
    /\ ~ret.sameText
    /\ ret.fileName \in DOMAIN sourceFiles
    /\ sourceFiles[ret.fileName].text = ret.text

\* ------------------------------------------------------------- claims: the patch
End(textChange) == textChange.span.start + textChange.span.length

\* No edit's range reaches into another's: of any two, one ends where the
\* other starts or before.
NonOverlapping(textChanges) ==
    \A i, j \in 1..Len(textChanges) :
        i # j => \/ End(textChanges[i]) <= textChanges[j].span.start
                 \/ End(textChanges[j]) <= textChanges[i].span.start

WithinBounds(text, textChanges) ==
    \A i \in 1..Len(textChanges) : InBounds(text, textChanges[i])

Perms(n) ==
    {f \in [1..n -> 1..n] : \A i, j \in 1..n : f[i] = f[j] => i = j}

Reordered(textChanges, f) == [i \in 1..Len(textChanges) |-> textChanges[f[i]]]

\* The pieces of text from offset pos on, with the edits from the k-th on
\* spliced in at their offsets in text.
RECURSIVE SpliceFrom(_, _, _, _)
SpliceFrom(text, ordered, k, pos) ==
    IF k > Len(ordered) THEN SubSeq(text, pos + 1, Len(text))
    ELSE SubSeq(text, pos + 1, ordered[k].span.start)
            \o ordered[k].newText
            \o SpliceFrom(text, ordered, k + 1, End(ordered[k]))

\* The strings that splice every edit into text at its own offsets: one for
\* each way to list the edits from left to right.
ManualSplices(text, textChanges) ==
    {SpliceFrom(text, Reordered(textChanges, f), 1, 0) :
        f \in {g \in Perms(Len(textChanges)) :
                 \A i, j \in 1..Len(textChanges) :
                     i < j => End(textChanges[g[i]]) <= textChanges[g[j]].span.start}}

PatchApplied ==
    /\ ret.op = "applyTextChanges"
    /\ ~ret.thrown
    /\ NonOverlapping(changes)
    /\ WithinBounds(ret.text, changes)

\* C3: for pairwise non-overlapping edits within the bounds of the string,
\* applyTextChanges returns the string with every edit spliced in at its
\* original offsets.
C3_PatchIsManualSplice ==
    PatchApplied => ret.result \in ManualSplices(ret.text, changes)

\* C4: for pairwise non-overlapping edits within the bounds of the string,
\* every order of listing the batch gives the string applyTextChanges
\* returned.
C4_PatchOrderIndependent ==
    PatchApplied =>
        \A f \in Perms(Len(changes)) :
            PatchedText(ret.text, Reordered(changes, f)) = ret.result

\* What the store holds for path p: content, version, cached parse.
Entry(p) ==
    [content |-> IF p \in DOMAIN files THEN {files[p]} ELSE {},
     version |-> getScriptVersion(Host, p),
     parse |-> IF p \in DOMAIN sourceFiles THEN {sourceFiles[p]} ELSE {}]

\* C16: a writeFile or applyTextChanges step leaves the backing filesystem
\* as it was, and leaves the content, version and cached parse of every path
\* other than the one it was given as they were.
C16_OnlyGivenPathChanges ==
    [][ret'.op \in {"writeFile", "applyTextChanges"}
          => /\ disk' = disk
             /\ \A p \in Paths \ {ret'.fileName} : Entry(p)' = Entry(p)]_vars

\* A path was just patched while the store holds content, a version and a
\* parse for the other path.
C16_Witness ==
    /\ ret.op = "applyTextChanges"
    /\ ~ret.thrown
    /\ \E p \in Paths \ {ret.fileName} :
          /\ p \in DOMAIN files
          /\ p \in DOMAIN fileVersions
          /\ p \in DOMAIN sourceFiles

\* C18: getScriptSnapshot(p) is absent exactly when readFile(p) returns
\* absent, and for a path that was written it wraps the latest text written,
\* the empty string included.
C18_SnapshotOfCurrentContent ==
    /\ \A p \in Paths :
          /\ getScriptSnapshot(Host, p).result = {}
                <=> readFile(Host, p).result = Undefined
          /\ (p \in DOMAIN lastWritten /\ lastWritten[p] # Undefined)
                => getScriptSnapshot(Host, p).result = {fromString(lastWritten[p])}
    /\ (/\ ret.op = "getScriptSnapshot"
        /\ ret.fileName \in DOMAIN lastWritten
        /\ lastWritten[ret.fileName] # Undefined)
          => ret.result = {fromString(lastWritten[ret.fileName])}

\* The snapshot of a path whose second write was the empty string.
C18_Witness ==
    /\ ret.op = "getScriptSnapshot"
    /\ writes[ret.fileName] = 2
    /\ lastWritten[ret.fileName] = <<>>
    /\ ret.result = {fromString(<<>>)}

\* C19: a getScriptVersion step leaves the store as it was, and returns "1"
\* for a path that was never written, whether the store knows nothing of it
\* or holds what a read-through cached.
C19_UnwrittenPathIsVersionOne ==
    [][ret'.op = "getScriptVersion"
          => /\ Host' = Host
             /\ writes[ret'.fileName] = 0 => ret'.result = "1"]_vars

\* The version of a path the store holds by read-through only.
C19_Witness ==
    /\ ret.op = "getScriptVersion"
    /\ writes[ret.fileName] = 0
    /\ ret.fileName \in DOMAIN files
    /\ ret.result = "1"

\* C23: for a path that neither the store nor the backing filesystem holds,
\* readFile, getSourceFile, getScriptSnapshot and applyTextChanges raise no
\* error, report the file absent and leave the store without an entry for it.
C23_AbsentPathRaisesNothing ==
    [][(/\ ret'.op \in {"readFile", "getSourceFile", "getScriptSnapshot",
                        "applyTextChanges"}
        /\ ret'.fileName \notin DOMAIN files
        /\ disk[ret'.fileName] = Undefined)
          => /\ Host' = Host
             /\ ret'.op = "applyTextChanges" => ~ret'.thrown
             /\ ret'.op \in {"readFile", "applyTextChanges"}
                   => ret'.result = Undefined
             /\ ret'.op \in {"getSourceFile", "getScriptSnapshot"}
                   => ret'.result = {}]_vars

\* ------------------------------------------------------------- claims: the settings
Resolved == ret.op = "makeFormatCodeSettings"

IsTrue(v) == v.type = "boolean" /\ v.boolean

\* C9: settings resolution with useTabs = true and a numeric tabWidth yields
\* tabSize = 1 and indentSize = 1.
C9_TabsForceSizeOne ==
    (/\ Resolved
     /\ IsTrue(ret.options.useTabs)
     /\ typeof(ret.options.tabWidth) = "number")
        => \A format \in ret.result :
              /\ Get(format, "tabSize") = Num(1)
              /\ Get(format, "indentSize") = Num(1)

\* C10: once a resolution on the instance has loaded and parsed an override
\* file, no later resolution on that instance reads a file again, whatever
\* the file parsed to.
C10_OverrideLoadedOnce ==
    (Resolved /\ ret.parsesBefore > 0) => ret.reads = 0

\* The resolution just made named an override file and read it.
Loaded == Resolved /\ ToBoolean(ret.options.tspTsFormat) /\ ret.reads = 1

\* What the file the resolution named parses to.
NamedOverrides ==
    json5Parse(overrideFiles[ret.options.tspTsFormat.string].text).value

KeysOf(v) == IF v.type = "object" THEN DOMAIN v.object ELSE {}

Same(a, b) == a = b

RECURSIVE WinsAtEveryKey(_, _)
WinsAtEveryKey(format, overrides) ==
    \A k \in DOMAIN overrides :
        /\ k \in DOMAIN format
        /\ IF overrides[k].type = "object"
           THEN /\ format[k].type = "object"
                /\ WinsAtEveryKey(format[k].object, overrides[k].object)
           ELSE Same(format[k], overrides[k])

\* C11: the settings a resolution returns after it loaded the override file
\* have the file's value at every key the file has, nested keys included and
\* also a key an earlier step deleted, and at every other key the value
\* computed from the baseline and the caller preferences.
C11_OverridesWinAtEveryKey ==
    Loaded =>
        \A format \in ret.result :
            LET preferred == fromPreferences(ret.options)
                keys == KeysOf(NamedOverrides)
            IN  /\ DOMAIN format = DOMAIN preferred \cup keys
                /\ keys # {} => WinsAtEveryKey(format, NamedOverrides.object)
                /\ \A k \in DOMAIN preferred \ keys : Same(format[k], preferred[k])

\* endOfLine is absent, so newLineCharacter was deleted, and the file loaded
\* gives it back, with a nested key.
C11_Witness ==
    /\ Loaded
    /\ ret.options.endOfLine = Undef
    /\ overrideFiles[ret.options.tspTsFormat.string] = File(NestedText)
    /\ \E format \in ret.result :
          /\ format["newLineCharacter"] = Str("\r")
          /\ format["brackets"].object["nonempty"] = Bool(TRUE)

\* The file the resolution just read exists and does not parse.
ReadMalformed ==
    /\ Loaded
    /\ overrideFiles[ret.options.tspTsFormat.string].exists
    /\ json5Parse(overrideFiles[ret.options.tspTsFormat.string].text).thrown # "none"

\* C12: a resolution whose override file is malformed returns no settings and
\* throws an error that identifies the path of the file.
C12_MalformedNamesPath ==
    ReadMalformed =>
        /\ ret.result = {}
        /\ ret.thrown # "none"
        /\ ret.options.tspTsFormat.string \in ret.names

\* C13: endOfLine 'crlf', 'lf', 'cr' give newLineCharacter "\r\n", "\n",
\* "\r"; with 'auto', any other value or none, and no override file, the
\* resolved settings have no newLineCharacter key.
C13_EndOfLineMapping ==
    Resolved =>
        /\ ret.result # {}
        /\ \A format \in ret.result :
              LET endOfLine == ret.options.endOfLine
                  newLine == Get(format, "newLineCharacter")
              IN  /\ endOfLine = Str("crlf") => newLine = Str("\r\n")
                  /\ endOfLine = Str("lf") => newLine = Str("\n")
                  /\ endOfLine = Str("cr") => newLine = Str("\r")
                  /\ endOfLine \notin {Str("crlf"), Str("lf"), Str("cr")}
                        => "newLineCharacter" \notin DOMAIN format

\* 'auto' was resolved, and the key is gone.
C13_Witness ==
    /\ Resolved
    /\ ret.options.endOfLine = Str("auto")
    /\ \E format \in ret.result : "newLineCharacter" \notin DOMAIN format

\* C24: for every numeric tabWidth w, with useTabs false or absent and no
\* override file, the resolved settings have tabSize = w and indentSize = w.
C24_TabWidthSetsBothSizes ==
    (/\ Resolved
     /\ typeof(ret.options.tabWidth) = "number"
     /\ ret.options.useTabs \in {Undef, Bool(FALSE)}
     /\ ~ToBoolean(ret.options.tspTsFormat))
        => /\ ret.result # {}
           /\ \A format \in ret.result :
                 /\ Get(format, "tabSize") = ret.options.tabWidth
                 /\ Get(format, "indentSize") = ret.options.tabWidth

\* C26: when useTabs is a boolean the resolved convertTabsToSpaces is its
\* negation; when useTabs is absent and no override file is named the
\* resolved settings have no convertTabsToSpaces key.
C26_UseTabsNegatedOrDeleted ==
    (Resolved /\ ~ToBoolean(ret.options.tspTsFormat)) =>
        /\ ret.result # {}
        /\ \A format \in ret.result :
              LET useTabs == ret.options.useTabs
              IN  /\ typeof(useTabs) = "boolean"
                        => Get(format, "convertTabsToSpaces") = Bool(~useTabs.boolean)
                  /\ useTabs = Undef => "convertTabsToSpaces" \notin DOMAIN format

\* useTabs was absent, and the key the baseline has is gone.
C26_Witness ==
    /\ Resolved
    /\ ret.options.useTabs = Undef
    /\ "convertTabsToSpaces" \in DOMAIN DefaultFormatCodeSettings
    /\ \E format \in ret.result : "convertTabsToSpaces" \notin DOMAIN format

UntouchedKeys ==
    {"semicolons", "tabSize", "indentSize",
     "insertSpaceAfterOpeningAndBeforeClosingNonemptyBrackets"}

\* C27: with semi, tabWidth and bracketSpacing absent and no override file,
\* the resolved semicolons, tabSize, indentSize and
\* insertSpaceAfterOpeningAndBeforeClosingNonemptyBrackets are the baseline's,
\* whatever endOfLine and useTabs are.
C27_AbsentPreferencesKeepBaseline ==
    (/\ Resolved
     /\ ret.options.semi = Undef
     /\ ret.options.tabWidth = Undef
     /\ ret.options.bracketSpacing = Undef
     /\ ~ToBoolean(ret.options.tspTsFormat))
        => /\ ret.result # {}
           /\ \A format \in ret.result :
                 \A k \in UntouchedKeys :
                    /\ k \in DOMAIN format
                    /\ format[k] = DefaultFormatCodeSettings[k]

\* The three preferences were absent while useTabs was false and endOfLine
\* was set: the flag and the new-line character changed, the four keys did not.
C27_Witness ==
    /\ Resolved
    /\ ret.options.semi = Undef
    /\ ret.options.tabWidth = Undef
    /\ ret.options.bracketSpacing = Undef
    /\ ret.options.useTabs = Bool(FALSE)
    /\ ret.options.endOfLine = Str("crlf")
    /\ \E format \in ret.result :
          /\ format["convertTabsToSpaces"] = Bool(TRUE)
          /\ format["newLineCharacter"] = Str("\r\n")
          /\ \A k \in UntouchedKeys : format[k] = DefaultFormatCodeSettings[k]

\* C25: after any sequence of resolutions, with or without an override file
\* and whether they returned or threw, the object DefaultFormatCodeSettings
\* names holds what it held when the module was loaded.
C25_BaselineUnchanged == baseline = DefaultFormatCodeSettings

\* A resolution deleted both keys from its copy and merged an override file
\* over it, and the baseline still has the two keys.
C25_Witness ==
    /\ Loaded
    /\ ret.options.endOfLine = Undef
    /\ ret.options.useTabs = Undef
    /\ \E format \in ret.result :
          /\ "convertTabsToSpaces" \notin DOMAIN format
          /\ "newLineCharacter" \notin DOMAIN format
          /\ format["indentSize"] = Num(3)
    /\ baseline["convertTabsToSpaces"] = Bool(FALSE)
    /\ baseline["newLineCharacter"] = Str(EOL)
    /\ baseline["indentSize"] = Num(1)

\* ------------------------------------------------------------- claims: printing
Printed == pc = "idle" /\ ret.op = "tsPrintSourceFile"

DoubleQuoteWords ==
    {s \in Strings(QuoteChars, MaxQuoteLen) \cup QuoteWords :
        toLowerCase(s) \in {<<"f", "a", "l", "s", "e">>, <<"n", "u", "l", "l">>,
                            <<"n", "o">>}}

\* The string literals of tree all carry flag.
AllTagged(tree, flag) ==
    \A i \in DOMAIN tree : tree[i].kind = "StringLiteral" => tree[i].singleQuote = flag

\* C14: the quote preference true resolves to single quotes; false, 0, null
\* and the strings "false", "null", "no" in any letter case resolve to double
\* quotes; with a preference that resolved, every string literal carries it,
\* and an absent preference leaves every node as it was.
C14_QuotePreferenceResolved ==
    Printed =>
        LET preference == ret.options.singleQuote
        IN  /\ preference = Bool(TRUE)
                  => ret.singleQuote = Bool(TRUE) /\ AllTagged(nodes, Bool(TRUE))
            /\ (\/ preference \in {Bool(FALSE), Num(0), Null}
                \/ \E s \in DoubleQuoteWords : preference = Text(s))
                  => ret.singleQuote = Bool(FALSE) /\ AllTagged(nodes, Bool(FALSE))
            /\ preference = Undef
                  => ret.singleQuote = Undef /\ nodes = ret.sourceFile

\* "No" was resolved on a source file whose string literal asked for single
\* quotes.
C14_Witness ==
    /\ Printed
    /\ ret.options.singleQuote = Text(<<"N", "o">>)
    /\ \E i \in DOMAIN nodes :
          /\ ret.sourceFile[i] = Node("StringLiteral", Bool(TRUE))
          /\ nodes[i] = Node("StringLiteral", Bool(FALSE))

\* C15: whenever tsPrintSourceFile has returned or thrown, ts.getLiteralText
\* is the function the call found; the wrapper is in place only while
\* printNode runs; and what printNode raised is what the call throws.
C15_HookRestored ==
    /\ Printed => getLiteralText = ret.found
    /\ getLiteralText.fn = "getLiteralText" => pc \in {"printNode", "finally"}
    /\ Printed => ret.thrown = ret.raised

\* printNode raised, the call threw, and the hook is back.
C15_Witness ==
    /\ Printed
    /\ ret.thrown \in PrintErrors
    /\ getLiteralText = ret.found

\* C17: a resolution that returns settings, with the caller preferences of
\* an earlier resolution on the instance and the override file it names
\* holding what it held then, returns settings equal to the earlier ones.
C17_SameInputsSameResult ==
    (/\ Resolved
     /\ ret.result # {}
     /\ first # NoCall
     /\ ret.options = first.options
     /\ overrideFiles[ret.options.tspTsFormat.string] = first.file)
        => ret.result = first.result

\* C30: a resolution that names another override file than the one first
\* loaded on the instance reads no file and returns the preferences merged
\* with what the first file parsed to; and a resolution that threw leaves the
\* cache unset, so that a resolution naming a file then reads it.
C30_FirstLoadedFileSticks ==
    /\ (/\ Resolved
        /\ first # NoCall
        /\ ret.options.tspTsFormat # first.options.tspTsFormat)
          => /\ ret.reads = 0
             /\ ret.result = {merge(fromPreferences(ret.options),
                                    json5Parse(first.file.text).value)}
    /\ (Resolved /\ ret.thrown # "none")
          => /\ ~ToBoolean(formatOverrides)
             /\ \A p \in FormatPaths :
                   loadOverrides(formatOverrides, overrideFiles, p).reads = 1

\* ------------------------------------------------------------- claims: the wrapper parser
\* C20: a call of the wrapper parser with tspDisable true returns as body
\* the text it was given, or the output of the builtin parser when
\* tspUseBuiltins is true, and invokes neither TypeScriptParser.parse nor a
\* store nor the language service: store and cached overrides stay as they
\* were.
C20_DisabledLeavesTextAlone ==
    [][(ret'.op = "parse" /\ ToBoolean(ret'.options.tspDisable))
          => /\ \A node \in ret'.node :
                   node.body = IF ToBoolean(ret'.options.tspUseBuiltins)
                               THEN ret'.engine.builtin
                               ELSE ret'.text
             /\ ret'.node # {}
             /\ ret'.invoked \subseteq {"builtin"}
             /\ Host' = Host
             /\ formatOverrides' = formatOverrides]_vars

\* Disabled with the builtin parser on: the body is the builtin's output,
\* which is not the text given.
C20_Witness ==
    /\ ret.op = "parse"
    /\ ToBoolean(ret.options.tspDisable)
    /\ ToBoolean(ret.options.tspUseBuiltins)
    /\ \E node \in ret.node : node.body = ret.engine.builtin /\ node.body # ret.text

\* C28: the node the wrapper parser returns has as source the text the
\* wrapper was handed, start 0 and as end the length of that text, for every
\* combination of tspUseBuiltins and tspDisable.
C28_NodeCarriesOriginalText ==
    ret.op = "parse" =>
        \A node \in ret.node :
            /\ node.source = ret.text
            /\ node.start = 0
            /\ node.end = Len(ret.text)

\* ------------------------------------------------------------- claims: parse
Parsed == ret.op = "TypeScriptParser.parse"

Computes == {"organizeImports", "getFormattingEditsForDocument"}

Writing == {"writeFile", "applyTextChanges"}

\* The calls of the log that write fileName, in their order.
WritesTo(log, fileName) ==
    SelectSeq(log, LAMBDA call : call.op \in Writing /\ call.fileName = fileName)

Touched(log) == {log[i].fileName : i \in DOMAIN log}

\* C21: the store an invocation of parse leaves holds what that invocation
\* alone did, whatever the invocation before left and whether it returned or
\* threw: content only for the paths it touched, for each the text of its
\* last write and as version 1 plus its number of writes, and a cached parse
\* of the file it parsed.
C21_InvocationsIndependent ==
    Parsed =>
        /\ DOMAIN files = Touched(ret.log)
        /\ DOMAIN fileVersions = Touched(ret.log)
        /\ \A p \in Touched(ret.log) :
              LET written == WritesTo(ret.log, p)
              IN  /\ written # <<>>
                  /\ files[p] = written[Len(written)].text
                  /\ getScriptVersion(Host, p) = String(1 + Len(written))
        /\ DOMAIN sourceFiles = Touched(ret.log) \cap {ret.filePath}
        /\ \A p \in DOMAIN sourceFiles : sourceFiles[p].text = files[p]

\* The second invocation formats the path the first one had staged when
\* printNode raised, with the overrides the first one cached, and leaves the
\* path at the version of three writes.
C21_Witness ==
    /\ Parsed
    /\ ret.calls = 2
    /\ ret.before.thrown \in PrintErrors
    /\ ret.filePath \in DOMAIN ret.before.host.files
    /\ ret.filePath \in DOMAIN ret.before.host.sourceFiles
    /\ ret.thrown = "none"
    /\ ToBoolean(Get(ret.options, "tspTsFormat"))
    /\ ret.reads = 0
    /\ getScriptVersion(Host, ret.filePath) = "4"

\* The call of the language service that computed the edits the call at j
\* applies: the last one before it.
ComputedAt(log, j) ==
    CHOOSE i \in 1..(j - 1) :
        /\ log[i].op \in Computes
        /\ \A k \in (i + 1)..(j - 1) : log[k].op \notin Computes

\* C22: in every invocation of parse each batch of edits is applied while
\* the store reports for the file the version it reported when the language
\* service computed the batch, and nothing wrote the file in between.
C22_EditsAppliedToVersionComputed ==
    Parsed =>
        \A j \in DOMAIN ret.log :
            ret.log[j].op = "applyTextChanges" =>
                /\ \E i \in 1..(j - 1) : ret.log[i].op \in Computes
                /\ LET i == ComputedAt(ret.log, j)
                       fileName == ret.log[j].fileName
                   IN  /\ ret.log[i].versions[fileName] = ret.log[j].versions[fileName]
                       /\ \A k \in (i + 1)..(j - 1) :
                             ~(/\ ret.log[k].op \in Writing
                               /\ ret.log[k].fileName = fileName)

\* organizeImports answered with entries for two files, both were applied,
\* and the formatting edits after them.
C22_Witness ==
    /\ Parsed
    /\ ret.thrown = "none"
    /\ Len(ret.engine.organized) = 2
    /\ Len(ret.engine.formatting) = 1
    /\ Len(SelectSeq(ret.log, LAMBDA call : call.op = "applyTextChanges")) = 3
    /\ getScriptVersion(Host, ret.filePath) = "5"

\* The invocation asked the language service to organise the imports.
Organized == \E i \in DOMAIN ret.log : ret.log[i].op = "organizeImports"

\* C29: parse asks for the imports to be organised exactly when
\* tspOrganizeImports is set and the printed text has neither comment; an
\* invocation that does not ask and returns writes the store three times, the
\* text it was given, the printed text and the formatted text it returns, and
\* applies the formatting edits only.
C29_OrganizeOnlyWhenAsked ==
    Parsed =>
        LET wanted == /\ ToBoolean(Get(ret.options, "tspOrganizeImports"))
                      /\ ~includes(ret.engine.printed, IgnoreComment)
                      /\ ~includes(ret.engine.printed, TslintComment)
            written == WritesTo(ret.log, ret.filePath)
            applied == SelectSeq(ret.log, LAMBDA call : call.op = "applyTextChanges")
        IN  /\ Organized => wanted
            /\ ret.thrown = "none" => (Organized <=> wanted)
            /\ (ret.thrown = "none" /\ ~wanted) =>
                  /\ Touched(ret.log) = {ret.filePath}
                  /\ Len(written) = 3
                  /\ written[1].op = "writeFile" /\ written[1].text = ret.text
                  /\ written[2].op = "writeFile"
                  /\ written[2].text = ret.engine.printed
                  /\ written[3].op = "applyTextChanges"
                  /\ \A node \in ret.node : written[3].text = node.body
                  /\ Len(applied) = 1
                  /\ applied[1].edits = ret.engine.formatting

\* tspOrganizeImports was set and the printed text had the tslint comment:
\* three writes, and the formatting edit the one applied.
C29_Witness ==
    /\ Parsed
    /\ ret.thrown = "none"
    /\ ToBoolean(Get(ret.options, "tspOrganizeImports"))
    /\ ret.engine.printed = <<TslintComment>>
    /\ ~Organized
    /\ Len(ret.engine.formatting) = 1
    /\ Len(WritesTo(ret.log, ret.filePath)) = 3
    /\ getScriptVersion(Host, ret.filePath) = "4"

====
